---- MODULE Spec2Model ----
(***************************************************************************)
(* CRUDBase, the generic CRUD base class of fastapi-sqlAlchemy, in its two *)
(* variants:                                                               *)
(*   "sync"  : src/fastapi_sqlalchemy/base_middleware.py  (Session)        *)
(*   "async" : src/middleware/base_middleware.py          (AsyncSession)   *)
(*                                                                         *)
(* Each variant works on a table of its own through one session.  A table  *)
(* is a set of rows with pairwise different ids (the primary key).  A      *)
(* session sees `session` (the committed rows plus its flushed, not yet    *)
(* committed changes); `committed` is what a rollback returns to.          *)
(*                                                                         *)
(* A call is a method name and the keyword arguments it is called with.    *)
(* `run` is the set of variants a behaviour runs: one of them under Spec,  *)
(* both under SpecPair, where every action applies the same call to both   *)
(* variants, each on its own table.  `call` records what each variant      *)
(* returned or raised.  `race` is where each of two concurrent sessions    *)
(* stands under SpecRace; the other specifications leave it alone.         *)
(*                                                                         *)
(* A method that goes to the session twice (create and update: commit or  *)
(* flush, then refresh or rollback; remove, hard_delete and the blocking   *)
(* remove_multi: a statement, then commit) runs in two steps: it stands at *)
(* pc = "await" between them, where another session (a task of the event   *)
(* loop, a thread) may commit on the same table.  db[v].inactive says that *)
(* a flush of the session failed and db.rollback() was not called since.   *)
(***************************************************************************)
EXTENDS Integers, Sequences, FiniteSets, TLC

VARIABLES db, pc, call, run, race

vars == <<db, pc, call, run, race>>

Variants == {"sync", "async"}

----------------------------------------------------------------------------
(* Bounds of the model. *)

\* ids a row may carry are 1..MaxId
MaxId == 2

----------------------------------------------------------------------------
(* Python values.  One record shape for every value, so that any two can   *)
(* be compared: k is the Python type, n the number of an int or bool, s    *)
(* the characters of a str, l the members of a list of ints, d the entries *)
(* of a dict.                                                              *)

Val(k, n, s, l, d) == [k |-> k, n |-> n, s |-> s, l |-> l, d |-> d]

NoneV == Val("none", 0, <<>>, {}, <<>>)
IntV(i) == Val("int", i, <<>>, {}, <<>>)
BoolV(b) == Val("bool", IF b THEN 1 ELSE 0, <<>>, {}, <<>>)
StrV(str) == Val("str", 0, str, {}, <<>>)
ListV(S) == Val("list", 0, <<>>, S, <<>>)
\* a dict of column values, and a schema object holding the same fields
DictV(f) == Val("dict", 0, <<>>, {}, f)
SchemaV(f) == Val("schema", 0, <<>>, {}, f)
\* a model instance loaded through the session: the row with id i
InstanceV(i) == Val("instance", i, <<>>, {}, <<>>)
\* a SQL expression object `model.id != i`, as passed in inner_filter, and
\* a list of such expressions, one for each i in S
ExprV(i) == Val("expr", i, <<>>, {}, <<>>)
ExprListV(S) == Val("exprs", 0, <<>>, S, <<>>)
\* a filter_data object (has .filter and .sort) that constrains nothing
FilterV == Val("filter", 0, <<>>, {}, <<>>)

\* the str "desc" and the str "id"
DescV == StrV(<<"d", "e", "s", "c">>)
IdNameV == StrV(<<"i", "d">>)

TrueV == BoolV(TRUE)
FalseV == BoolV(FALSE)

\* Python truthiness: `if value`, `and value`, `not result`
Truthy(v) ==
    CASE v.k = "none" -> FALSE
      [] v.k \in {"int", "bool"} -> v.n # 0
      [] v.k = "str" -> v.s # <<>>
      [] v.k = "list" -> v.l # {}
      [] OTHER -> TRUE

\* isinstance(value, list)
IsList(v) == v.k = "list"

EmptyKw == [x \in {} |-> NoneV]

\* a keyword dictionary of one entry, and the union of two dictionaries
Kw(key, v) == [x \in {key} |-> v]

\* the value bound to parameter `name`, or its default
Arg(kw, name, default) == IF name \in DOMAIN kw THEN kw[name] ELSE default

\* the keywords left for **kwargs once the named parameters are bound
Rest(kw, params) == [x \in (DOMAIN kw) \ params |-> kw[x]]

----------------------------------------------------------------------------
(* The mapped model: a table row has the columns below; `owner` is a       *)
(* relationship attribute (its property has a `direction`).                *)

Columns == {"id", "name", "age", "is_active", "is_deleted"}
Relationships == {"owner"}

\* hasattr(self.model, key)
HasAttr(key) == key \in Columns \cup Relationships

Ids == 1..MaxId

Row(i, nm, ag, act, del) ==
    [id |-> IntV(i), name |-> nm, age |-> ag, is_active |-> BoolV(act), is_deleted |-> BoolV(del)]

RowIds(T) == {r.id.n : r \in T}

RowOf(T, i) == CHOOSE r \in T : r.id.n = i

\* the primary key: no two rows of a table share an id
IsTable(T) == \A r1, r2 \in T : r1.id = r2.id => r1 = r2

Live(r) == r.is_active = TrueV /\ r.is_deleted = FalseV

----------------------------------------------------------------------------
(* The session (SQLAlchemy's, called by the code). *)

\* db.commit(): the pending changes become the committed table
commit(d) == [committed |-> d.session, session |-> d.session, inactive |-> FALSE]

\* db.rollback(): every pending change is discarded, and a session whose
\* flush failed can be used again
rollback(d) == [committed |-> d.committed, session |-> d.committed, inactive |-> FALSE]

\* db.flush(): the changes reach the transaction and stay uncommitted
flush(d, T) == [committed |-> d.committed, session |-> T, inactive |-> d.inactive]

\* a flush that raised (inside commit or by itself): the transaction is
\* rolled back at once and the session refuses every statement with
\* InvalidRequestError until db.rollback() is called
failed(d) == [rollback(d) EXCEPT !.inactive = TRUE]

----------------------------------------------------------------------------
(* What a call gives back.  kind: "row" (a model instance, in rows),       *)
(* "rows" (a list or page of instances), "none", "bool", "int" (in n), or  *)
(* "error" (exc raised to the caller, with status and detail for an HTTP   *)
(* error).  raised: the exceptions raised while the call ran, caught or    *)
(* not.                                                                    *)

Res(kind, rows, n, exc, status, detail, raised) ==
    [kind |-> kind, rows |-> rows, n |-> n, exc |-> exc, status |-> status,
     detail |-> detail, raised |-> raised]

RowRes(r) == Res("row", {r}, 0, "", 0, "", {})
RowsRes(T) == Res("rows", T, 0, "", 0, "", {})
NoneRes == Res("none", {}, 0, "", 0, "", {})
TrueRes == Res("bool", {}, 1, "", 0, "", {})
IntRes(n) == Res("int", {}, n, "", 0, "", {})
\* an exception that reaches the caller as raised
Raise(exc) == Res("error", {}, 0, exc, 0, "", {exc})
\* an HTTP error raised by the code itself
HttpError(exc, status, detail) == Res("error", {}, 0, exc, status, detail, {exc})

Out(d, res) == [db |-> d, res |-> res]

\* a call suspended at an await: the tables so far, what it is about to
\* return or raise, and what it awaits next
Part(d, res, wait) == [db |-> d, res |-> res, wait |-> wait]

\* what a call awaits next: nothing when it ran to its end
WaitOf(out) == IF "wait" \in DOMAIN out THEN out.wait ELSE ""

----------------------------------------------------------------------------
(* SQL comparisons of a column value c with a bound value v, as the        *)
(* expressions SQLAlchemy builds evaluate in a WHERE clause: a comparison  *)
(* with NULL is not true.                                                  *)

Numeric(v) == v.k \in {"int", "bool"}

SameValue(c, v) ==
    \/ Numeric(c) /\ Numeric(v) /\ c.n = v.n
    \/ c.k = "str" /\ v.k = "str" /\ c.s = v.s

\* column == value for a value the driver binds: `IS NULL` for None,
\* `= value` otherwise (the callers raise for a value it cannot bind)
SqlEq(c, v) == IF v.k = "none" THEN c.k = "none" ELSE c.k # "none" /\ SameValue(c, v)

\* column != value: `IS NOT NULL` for None, `!= value` otherwise
SqlNe(c, v) == IF v.k = "none" THEN c.k # "none" ELSE c.k # "none" /\ ~SameValue(c, v)

\* column.in_(list): an empty list matches no row
SqlIn(c, v) == Numeric(c) /\ c.n \in v.l

\* a value the driver binds as one parameter of a statement; a list (or any
\* other object) bound to `==` or `!=` fails when the statement is executed
Bindable(v) == v.k \in {"none", "int", "bool", "str"}

\* some keyword compares a column with `==` / `!=` to a list
ListCompared(kwargs) == \E key \in DOMAIN kwargs \cap Columns : ~Bindable(kwargs[key])

\* some keyword compares a column to a value that is no list and not bindable
Unbound(kwargs) ==
    \E key \in DOMAIN kwargs \cap Columns : ~IsList(kwargs[key]) /\ ~Bindable(kwargs[key])

\* column IS value, as sqlite evaluates it: equal, or both NULL
SqlIs(c, v) == (c.k = "none" /\ v.k = "none") \/ SameValue(c, v)

\* the expressions of an inner_filter value: ExprV(i) is `model.id != i`
InnerFilter(r, v) == IF v.k = "expr" THEN r.id.n # v.n ELSE \A i \in v.l : r.id.n # i

----------------------------------------------------------------------------
(* Queries. *)

\* CRUDBase._active_data: the rows with is_active == True, is_deleted == False
active_data(T) == {r \in T : r.is_active = TrueV /\ r.is_deleted = FalseV}

\* .first() of a query without ORDER BY: the database's scan order is
\* unspecified; `scan` is the id its scan starts from, ids wrapping around
ScanRank(r, scan) == (r.id.n - scan) % MaxId

First(T, scan) == CHOOSE r \in T : \A o \in T : ScanRank(r, scan) <= ScanRank(o, scan)

\* .first() of a query ordered by id, descending or ascending
FirstById(T, descending) ==
    CHOOSE r \in T : \A o \in T : IF descending THEN o.id.n <= r.id.n ELSE r.id.n <= o.id.n

\* CRUDBase.get, blocking variant: no _active_data, no raise_exc, no **kwargs
get_sync(d, kw) ==
    IF DOMAIN kw # {"id"}
    THEN Out(d, Raise("TypeError"))
    ELSE IF d.inactive THEN Out(d, Raise("InvalidRequestError"))
    ELSE IF ~Bindable(kw["id"]) THEN Out(d, Raise("ProgrammingError"))
    ELSE LET found == {r \in d.session : SqlEq(r.id, kw["id"])}
         IN  IF found = {} THEN Out(d, NoneRes)
             ELSE Out(d, RowRes(CHOOSE r \in found : TRUE))

\* CRUDBase.get, asynchronous variant
get_async(d, kw) ==
    IF "id" \notin DOMAIN kw
    THEN Out(d, Raise("TypeError"))
    ELSE IF d.inactive THEN Out(d, Raise("InvalidRequestError"))
    ELSE IF ~Bindable(kw["id"]) THEN Out(d, Raise("ProgrammingError"))
    ELSE LET raise_exc == Arg(kw, "raise_exc", TrueV)
             found == {r \in active_data(d.session) : SqlEq(r.id, kw["id"])}
         IN  IF found = {}
             THEN IF Truthy(raise_exc)
                  THEN Out(d, HttpError("BaseHTTPException", 404, "not found"))
                  ELSE Out(d, NoneRes)
             ELSE Out(d, RowRes(CHOOSE r \in found : TRUE))

get(v, d, kw) == IF v = "sync" THEN get_sync(d, kw) ELSE get_async(d, kw)

\* the loop of filter_by and count over **kwargs: `in_` for a list, `==`
\* otherwise, on every keyword that names a model attribute
KwargsMatch(r, kwargs) ==
    \A key \in DOMAIN kwargs \cap Columns :
        IF IsList(kwargs[key]) THEN SqlIn(r[key], kwargs[key]) ELSE SqlEq(r[key], kwargs[key])

\* the loop of get_multi over **kwargs: as above, `and value`
KwargsMatchTruthy(r, kwargs) ==
    \A key \in DOMAIN kwargs \cap Columns :
        Truthy(kwargs[key]) =>
            IF IsList(kwargs[key]) THEN SqlIn(r[key], kwargs[key]) ELSE SqlEq(r[key], kwargs[key])

\* comparing a relationship attribute with a value that is no mapped
\* instance raises as the expression is built (the calls made here pass no
\* None and no instance to a relationship keyword)
RelationshipCompared(kwargs) == DOMAIN kwargs \cap Relationships # {}

\* CRUDBase.filter_by, the same in both variants
filter_by(v, d, kw, scan) ==
    LET is_reversed == Arg(kw, "is_reversed", FalseV)
        raise_exc == Arg(kw, "raise_exc", TrueV)
        kwargs == Rest(kw, {"is_reversed", "raise_exc", "join_tables", "is_outer"})
        found == {r \in active_data(d.session) :
                    /\ KwargsMatch(r, kwargs)
                    /\ "inner_filter" \in DOMAIN kwargs => InnerFilter(r, kwargs["inner_filter"])}
        direction == IF Truthy(Arg(kwargs, "order_by", NoneV))
                     THEN Arg(kwargs, "direction", NoneV) ELSE DescV
    IN  IF RelationshipCompared(kwargs) THEN Out(d, Raise("ArgumentError"))
        ELSE IF d.inactive THEN Out(d, Raise("InvalidRequestError"))
        ELSE IF Unbound(kwargs) THEN Out(d, Raise("ProgrammingError"))
        ELSE IF found = {}
        THEN IF Truthy(raise_exc)
             THEN Out(d, HttpError("BaseHTTPException", 404, "not found"))
             ELSE Out(d, NoneRes)
        ELSE IF Truthy(is_reversed)
        THEN Out(d, RowRes(FirstById(found, direction = DescV)))
        ELSE Out(d, RowRes(First(found, scan)))

\* get_multi with the missing filter_data caught and an empty list returned
get_multi_swallow(v, d, kw) ==
    LET filter_data == Arg(kw, "filter_data", NoneV)
        sorting == Arg(kw, "sorting", TrueV)
        filters == Arg(kw, "filters", TrueV)
        pagination == Arg(kw, "pagination", TrueV)
        kwargs == Rest(kw, {"filter_data", "sorting", "filters", "pagination",
                            "join_tables", "is_outer"})
        found == {r \in active_data(d.session) :
                    /\ KwargsMatchTruthy(r, kwargs)
                    /\ "inner_filter" \in DOMAIN kwargs => InnerFilter(r, kwargs["inner_filter"])}
    IN  IF \E key \in DOMAIN kwargs \cap Relationships : Truthy(kwargs[key])
        THEN Out(d, Raise("ArgumentError"))
        ELSE IF (Truthy(filters) \/ Truthy(sorting)) /\ filter_data.k = "none"
        THEN Out(d, Res("rows", {}, 0, "", 0, "", {"AttributeError"}))
        ELSE IF d.inactive THEN Out(d, Raise("InvalidRequestError"))
        ELSE IF Unbound([key \in {x \in DOMAIN kwargs : Truthy(kwargs[x])} |-> kwargs[key]])
        THEN Out(d, Raise("ProgrammingError"))
        ELSE IF Truthy(pagination)
        THEN Out(d, Res("page", found, 0, "", 0, "", {}))
        ELSE Out(d, RowsRes(found))

\* CRUDBase.get_multi, the same in both variants.  The rows are kept as a
\* set (their order is not modelled); paginate runs in a request that set
\* the page parameters and gives the page of the rows.
get_multi(v, d, kw) ==
    LET filter_data == Arg(kw, "filter_data", NoneV)
        sorting == Arg(kw, "sorting", TrueV)
        filters == Arg(kw, "filters", TrueV)
        pagination == Arg(kw, "pagination", TrueV)
        kwargs == Rest(kw, {"filter_data", "sorting", "filters", "pagination",
                            "join_tables", "is_outer"})
        found == {r \in active_data(d.session) :
                    /\ KwargsMatchTruthy(r, kwargs)
                    /\ "inner_filter" \in DOMAIN kwargs => InnerFilter(r, kwargs["inner_filter"])}
    IN  IF \E key \in DOMAIN kwargs \cap Relationships : Truthy(kwargs[key])
        THEN Out(d, Raise("ArgumentError"))
        ELSE IF (Truthy(filters) \/ Truthy(sorting)) /\ filter_data.k = "none"
        THEN Out(d, Raise("AttributeError"))
        ELSE IF d.inactive THEN Out(d, Raise("InvalidRequestError"))
        ELSE IF Unbound([key \in {x \in DOMAIN kwargs : Truthy(kwargs[x])} |-> kwargs[key]])
        THEN Out(d, Raise("ProgrammingError"))
        ELSE IF Truthy(pagination)
        THEN Out(d, Res("page", found, 0, "", 0, "", {}))
        ELSE Out(d, RowsRes(found))

\* CRUDBase.count, the same in both variants; `filter(*value)` unpacks the
\* inner_filter value, which raises for a single expression
count(v, d, kw) ==
    LET kwargs == kw
        found == {r \in active_data(d.session) :
                    /\ KwargsMatch(r, kwargs)
                    /\ "inner_filter" \in DOMAIN kwargs => InnerFilter(r, kwargs["inner_filter"])}
    IN  IF RelationshipCompared(kwargs) THEN Out(d, Raise("ArgumentError"))
        ELSE IF "inner_filter" \in DOMAIN kwargs /\ kwargs["inner_filter"].k = "expr"
        THEN Out(d, Raise("NotImplementedError"))
        ELSE IF d.inactive THEN Out(d, Raise("InvalidRequestError"))
        ELSE IF Unbound(kwargs) THEN Out(d, Raise("ProgrammingError"))
        ELSE Out(d, IntRes(Cardinality(found)))

\* CRUDBase.is_exist, the same in both variants: `==` (or `!=`) for every
\* value, a list included, which the driver refuses when the query runs
is_exist(v, d, kw) ==
    LET kwargs == kw
        updated == Truthy(Arg(kwargs, "updated", NoneV))
        found == {r \in d.session :
                    \A key \in DOMAIN kwargs \cap Columns :
                        IF updated /\ key = "id"
                        THEN SqlNe(r[key], kwargs[key])
                        ELSE SqlEq(r[key], kwargs[key])}
    IN  IF RelationshipCompared(kwargs) THEN Out(d, Raise("ArgumentError"))
        ELSE IF d.inactive THEN Out(d, Raise("InvalidRequestError"))
        ELSE IF ListCompared(kwargs) THEN Out(d, Raise("ProgrammingError"))
        ELSE IF found # {}
        THEN Out(d, HttpError("BaseHTTPException", 400, "already exists"))
        ELSE Out(d, TrueRes)

----------------------------------------------------------------------------
(* filter_test.  Its keywords are written as the tuple of their parts      *)
(* between "__": age__gte is <<"age", "gte">>, so that field_name.split    *)
(* is the tuple and "__".join(field[:-1]) is its prefix.                   *)

\* the keys of CRUDBase._orm_operator_transformer
Suffixes == {"neq", "gt", "gte", "in", "isnull", "lt", "lte", "like", "ilike", "not", "not_in"}

\* CRUDBase._orm_operator_transformer[suffix](value): <<operator, value>>
orm_operator_transformer(suffix, value) ==
    CASE suffix = "neq" -> <<"__ne__", value>>
      [] suffix = "gt" -> <<"__gt__", value>>
      [] suffix = "gte" -> <<"__ge__", value>>
      [] suffix = "in" -> <<"in_", value>>
      [] suffix = "isnull" -> IF value = TrueV THEN <<"is_", NoneV>> ELSE <<"is_not", NoneV>>
      [] suffix = "lt" -> <<"__lt__", value>>
      [] suffix = "lte" -> <<"__le__", value>>
      [] suffix = "like" -> <<"like", value>>
      [] suffix = "ilike" -> <<"ilike", value>>
      [] suffix = "not" -> <<"is_not", value>>
      [] suffix = "not_in" -> <<"not_in", value>>

\* str.lower() of one character
Lower(ch) == CASE ch = "A" -> "a" [] ch = "B" -> "b" [] OTHER -> ch

LowerStr(str) == [i \in 1..Len(str) |-> Lower(str[i])]

\* SQL LIKE: % matches any run of characters, _ any one character
RECURSIVE LikeMatch(_, _)
LikeMatch(str, pat) ==
    IF pat = <<>> THEN str = <<>>
    ELSE IF Head(pat) = "%"
    THEN LikeMatch(str, Tail(pat)) \/ (str # <<>> /\ LikeMatch(Tail(str), pat))
    ELSE /\ str # <<>>
         /\ Head(pat) = "_" \/ Head(pat) = Head(str)
         /\ LikeMatch(Tail(str), Tail(pat))

\* getattr(model_field, operator)(value) as a WHERE clause on column value c
SqlOp(operator, c, v) ==
    CASE operator = "__eq__" -> SqlEq(c, v)
      [] operator = "__ne__" -> SqlNe(c, v)
      [] operator = "__gt__" -> Numeric(c) /\ Numeric(v) /\ c.n > v.n
      [] operator = "__ge__" -> Numeric(c) /\ Numeric(v) /\ c.n >= v.n
      [] operator = "__lt__" -> Numeric(c) /\ Numeric(v) /\ c.n < v.n
      [] operator = "__le__" -> Numeric(c) /\ Numeric(v) /\ c.n <= v.n
      [] operator = "in_" -> SqlIn(c, v)
      \* NOT IN of an empty list holds for every row, NULL included
      [] operator = "not_in" -> v.l = {} \/ (Numeric(c) /\ c.n \notin v.l)
      [] operator = "is_" -> SqlIs(c, v)
      [] operator = "is_not" -> ~SqlIs(c, v)
      \* LIKE of the database the error texts are taken from (sqlite) does
      \* not tell the case of ASCII letters apart
      [] operator = "like" -> c.k = "str" /\ v.k = "str" /\ LikeMatch(LowerStr(c.s), LowerStr(v.s))
      [] operator = "ilike" -> c.k = "str" /\ v.k = "str" /\ LikeMatch(LowerStr(c.s), LowerStr(v.s))

\* one pass of the first loop of filter_test over a keyword: what it adds to
\* the query (operator, column, value), raises, or catches
FirstLoop(key, value0) ==
    LET recognized == Len(key) > 1 /\ key[Len(key)] \in Suffixes
        field_name == IF recognized THEN SubSeq(key, 1, Len(key) - 1) ELSE key
        transformed == IF recognized THEN orm_operator_transformer(key[Len(key)], value0)
                       ELSE <<"__eq__", value0>>
        attribute_name == field_name[1]
    IN  IF ~HasAttr(attribute_name) THEN [do |-> "skip"]
        ELSE IF attribute_name \in Relationships
        \* try: ... except: pass
        THEN [do |-> "caught", exc |-> IF Len(field_name) > 1 THEN "AttributeError" ELSE "ArgumentError"]
        ELSE IF Len(field_name) > 1 THEN [do |-> "raise", exc |-> "AttributeError"]
        ELSE [do |-> "filter", column |-> field_name[1], operator |-> transformed[1], value |-> transformed[2]]

\* one pass of the loop `if hasattr(self.model, field_name) and value`: the
\* second loop of the blocking filter_test, the only loop of the asynchronous
SecondLoop(key, value) ==
    IF ~(Len(key) = 1 /\ HasAttr(key[1]) /\ Truthy(value)) THEN [do |-> "skip"]
    ELSE IF key[1] \in Relationships THEN [do |-> "raise", exc |-> "ArgumentError"]
    ELSE [do |-> "filter", column |-> key[1], operator |-> "__eq__", value |-> value]

Selected(T, steps) ==
    {r \in T : \A st \in steps : st.do = "filter" => SqlOp(st.operator, r[st.column], st.value)}

\* a comparison of the WHERE clause whose value the driver cannot bind: the
\* statement raises when it is executed
UnboundStep(st) ==
    st.do = "filter" /\ st.operator \notin {"in_", "not_in"} /\ ~Bindable(st.value)

\* CRUDBase.filter_test, blocking variant, on the query select(model)
filter_test_sync(d, kw) ==
    LET first == {FirstLoop(key, kw[key]) : key \in DOMAIN kw}
        second == {SecondLoop(key, kw[key]) : key \in DOMAIN kw}
        caught == {st.exc : st \in {x \in first : x.do = "caught"}}
        raised1 == {st.exc : st \in {x \in first : x.do = "raise"}}
        raised2 == {st.exc : st \in {x \in second : x.do = "raise"}}
        \* the first loop raises AttributeError only, the second ArgumentError
        \* only, and the second runs when the first raised nothing
        raised == IF raised1 # {} THEN raised1 ELSE raised2
    IN  IF raised # {}
        THEN Out(d, Res("error", {}, 0, CHOOSE e \in raised : TRUE, 0, "", caught \cup raised))
        ELSE IF d.inactive
        THEN Out(d, Res("error", {}, 0, "InvalidRequestError", 0, "",
                        caught \cup {"InvalidRequestError"}))
        ELSE IF \E st \in first \cup second : UnboundStep(st)
        THEN Out(d, Res("error", {}, 0, "ProgrammingError", 0, "", caught \cup {"ProgrammingError"}))
        ELSE Out(d, Res("rows", Selected(d.session, first \cup second), 0, "", 0, "", caught))

\* CRUDBase.filter_test, asynchronous variant: the second definition of the
\* class body (lines 124-134), which replaces the first (lines 63-107)
filter_test_async(d, kw) ==
    LET second == {SecondLoop(key, kw[key]) : key \in DOMAIN kw}
        raised == {st.exc : st \in {x \in second : x.do = "raise"}}
    IN  IF raised # {}
        THEN Out(d, Res("error", {}, 0, CHOOSE e \in raised : TRUE, 0, "", raised))
        ELSE IF d.inactive THEN Out(d, Raise("InvalidRequestError"))
        ELSE IF \E st \in second : UnboundStep(st) THEN Out(d, Raise("ProgrammingError"))
        ELSE Out(d, RowsRes(Selected(d.session, second)))

filter_test(v, d, kw) == IF v = "sync" THEN filter_test_sync(d, kw) ELSE filter_test_async(d, kw)

----------------------------------------------------------------------------
(* Writes. *)

\* str(ex.orig) of the IntegrityError the database raises for a second row
\* with the id of an existing one
PkViolation == "UNIQUE constraint failed: id"

\* self.model(**obj_in) and the INSERT's defaults: an absent id is the next
\* one of the table, absent name and age are NULL, a new row is active and
\* not deleted
NewRow(T, obj_in) ==
    [id |-> IF "id" \in DOMAIN obj_in THEN obj_in["id"]
            ELSE IntV(IF T = {} THEN 1 ELSE 1 + CHOOSE m \in RowIds(T) : \A i \in RowIds(T) : i <= m),
     name |-> Arg(obj_in, "name", NoneV),
     age |-> Arg(obj_in, "age", NoneV),
     is_active |-> Arg(obj_in, "is_active", TrueV),
     is_deleted |-> Arg(obj_in, "is_deleted", FalseV)]

\* create on a table whose name column is unique: a second row with a name
\* already there is refused like a second row with an id already there
create_unique_name(v, d, kw) ==
    LET autocommit == Arg(kw, "autocommit", TrueV)
        obj_in == kw["obj_in"].d
        row == NewRow(d.session, obj_in)
        added == d.session \cup {row}
    IN  IF "obj_in" \notin DOMAIN kw \/ DOMAIN kw \ {"obj_in", "autocommit"} # {}
        THEN Out(d, Raise("TypeError"))
        ELSE IF v = "async" /\ kw["obj_in"].k # "dict" THEN Out(d, Raise("TypeError"))
        ELSE IF DOMAIN obj_in \ Columns # {} THEN Out(d, Raise("TypeError"))
        ELSE IF d.inactive THEN Out(d, Raise("InvalidRequestError"))
        ELSE IF row.id.n \in RowIds(d.session) \/ \E r \in d.session : r.name = row.name
        THEN Out(rollback(d),
                 Res("error", {}, 0, "HTTPException", 400, PkViolation,
                     {"IntegrityError", "HTTPException"}))
        ELSE IF Truthy(autocommit)
        THEN Out(commit(flush(d, added)), RowRes(row))
        ELSE Out(flush(d, added), RowRes(row))

\* CRUDBase.create: try / add / commit or flush / except IntegrityError.
\* The caller kept no instance with the id of the new row in the session, so
\* a second row with an id is refused by the database (IntegrityError).
\* The blocking variant encodes obj_in (a dict or a schema object) to a dict
\* first; the asynchronous variant unpacks obj_in as it is, which raises for
\* an object that is no mapping.
create(v, d, kw) ==
    LET autocommit == Arg(kw, "autocommit", TrueV)
        obj_in == kw["obj_in"].d
        row == NewRow(d.session, obj_in)
        added == d.session \cup {row}
    IN  IF "obj_in" \notin DOMAIN kw \/ DOMAIN kw \ {"obj_in", "autocommit"} # {}
        THEN Out(d, Raise("TypeError"))
        ELSE IF v = "async" /\ kw["obj_in"].k # "dict" THEN Out(d, Raise("TypeError"))
        ELSE IF DOMAIN obj_in \ Columns # {} THEN Out(d, Raise("TypeError"))
        ELSE IF d.inactive THEN Out(d, Raise("InvalidRequestError"))
        ELSE IF row.id.n \in RowIds(d.session)
        THEN Out(rollback(d),
                 Res("error", {}, 0, "HTTPException", 400, PkViolation,
                     {"IntegrityError", "HTTPException"}))
        ELSE IF Truthy(autocommit)
        THEN Out(commit(flush(d, added)), RowRes(row))
        ELSE Out(flush(d, added), RowRes(row))

\* CRUDBase.update, the same in both variants: the fields of db_obj that
\* obj_in names are set, other names of obj_in are passed over.  On a
\* session whose flush failed every instance is expired: obj_data has no
\* field, nothing is set, db.flush() finds nothing to write and db_obj is
\* returned as it is, while db.commit() is refused.
update(v, d, kw) ==
    LET autocommit == Arg(kw, "autocommit", TrueV)
        db_obj == RowOf(d.session, kw["db_obj"].n)
        update_data == kw["obj_in"].d
        row == [field \in Columns |->
                   IF field \in DOMAIN update_data THEN update_data[field] ELSE db_obj[field]]
        others == d.session \ {db_obj}
    IN  IF {"db_obj", "obj_in"} \ DOMAIN kw # {} \/ DOMAIN kw \ {"db_obj", "obj_in", "autocommit"} # {}
        THEN Out(d, Raise("TypeError"))
        ELSE IF d.inactive /\ Truthy(autocommit) THEN Out(d, Raise("InvalidRequestError"))
        ELSE IF d.inactive THEN Out(d, RowRes(db_obj))
        ELSE IF row.id.n \in RowIds(others)
        THEN Out(rollback(d),
                 Res("error", {}, 0, "HTTPException", 400, PkViolation,
                     {"IntegrityError", "HTTPException"}))
        ELSE IF Truthy(autocommit)
        THEN Out(commit(flush(d, others \cup {row})), RowRes(row))
        ELSE Out(flush(d, others \cup {row}), RowRes(row))

\* CRUDBase.remove, blocking variant: db.query(model).with_deleted(db).get(id),
\* db.delete(obj), db.commit().  Query.with_deleted is no method of
\* SQLAlchemy's Query: with_deleted says whether the query class of the
\* caller's session provides it.
remove_sync(d, kw, with_deleted) ==
    LET found == {r \in d.session : SqlEq(r.id, kw["id"])}
    IN  IF DOMAIN kw # {"id"} THEN Out(d, Raise("TypeError"))
        ELSE IF ~with_deleted THEN Out(d, Raise("AttributeError"))
        ELSE IF d.inactive THEN Out(d, Raise("InvalidRequestError"))
        ELSE IF found = {} THEN Out(d, Raise("UnmappedInstanceError"))
        ELSE Out(commit(flush(d, d.session \ found)), RowRes(CHOOSE r \in found : TRUE))

\* CRUDBase.remove, asynchronous variant: filter_by(db=db, **kwargs), then
\* is_deleted = True on the row found, and commit
remove_async(d, kw, scan) ==
    LET kwargs == Rest(kw, {"autocommit"})
        found == filter_by("async", d, kwargs, scan).res
        obj == CHOOSE r \in found.rows : TRUE
        deleted == [obj EXCEPT !.is_deleted = TrueV]
    IN  IF found.kind = "error" THEN Out(d, found)
        ELSE IF found.kind = "none" THEN Out(d, Raise("AttributeError"))
        ELSE Out(commit(flush(d, (d.session \ {obj}) \cup {deleted})), RowRes(deleted))

remove(v, d, kw, with_deleted, scan) ==
    IF v = "sync" THEN remove_sync(d, kw, with_deleted) ELSE remove_async(d, kw, scan)

\* hard_delete with the is_active / is_deleted filter of the reads applied
hard_delete_live_only(v, d, kw) ==
    IF "id" \notin DOMAIN kw \/ DOMAIN kw \ {"id", "autocommit"} # {}
    THEN Out(d, Raise("TypeError"))
    ELSE IF d.inactive THEN Out(d, Raise("InvalidRequestError"))
    ELSE IF ~Bindable(kw["id"]) THEN Out(d, Raise("ProgrammingError"))
    ELSE Out(commit(flush(d, d.session \ {r \in active_data(d.session) : SqlEq(r.id, kw["id"])})),
             TrueRes)

\* CRUDBase.hard_delete, the same in both variants: autocommit is accepted
\* and not read
hard_delete(v, d, kw) ==
    IF "id" \notin DOMAIN kw \/ DOMAIN kw \ {"id", "autocommit"} # {}
    THEN Out(d, Raise("TypeError"))
    ELSE IF d.inactive THEN Out(d, Raise("InvalidRequestError"))
    ELSE IF ~Bindable(kw["id"]) THEN Out(d, Raise("ProgrammingError"))
    ELSE Out(commit(flush(d, {r \in d.session : ~SqlEq(r.id, kw["id"])})), TrueRes)

\* the rows a DELETE of remove_multi leaves: those that fail some `==`
RemoveMultiKept(T, kwargs) ==
    {r \in T : ~(\A key \in DOMAIN kwargs \cap Columns : SqlEq(r[key], kwargs[key]))}

\* CRUDBase.remove_multi, blocking variant: commit or flush
remove_multi_sync(d, kw) ==
    LET autocommit == Arg(kw, "autocommit", TrueV)
        kwargs == Rest(kw, {"autocommit"})
        kept == RemoveMultiKept(d.session, kwargs)
    IN  IF RelationshipCompared(kwargs) THEN Out(d, Raise("ArgumentError"))
        ELSE IF d.inactive THEN Out(d, Raise("InvalidRequestError"))
        ELSE IF ListCompared(kwargs) THEN Out(d, Raise("ProgrammingError"))
        ELSE IF Truthy(autocommit) THEN Out(commit(flush(d, kept)), TrueRes)
        ELSE Out(flush(d, kept), TrueRes)

\* CRUDBase.remove_multi, asynchronous variant: the DELETE is executed and
\* neither committed nor flushed by the method
remove_multi_async(d, kw) ==
    LET kwargs == Rest(kw, {"autocommit"})
        kept == RemoveMultiKept(d.session, kwargs)
    IN  IF RelationshipCompared(kwargs) THEN Out(d, Raise("ArgumentError"))
        ELSE IF d.inactive THEN Out(d, Raise("InvalidRequestError"))
        ELSE IF ListCompared(kwargs) THEN Out(d, Raise("ProgrammingError"))
        ELSE Out(flush(d, kept), TrueRes)

remove_multi(v, d, kw) == IF v = "sync" THEN remove_multi_sync(d, kw) ELSE remove_multi_async(d, kw)

----------------------------------------------------------------------------
(* The writes, one access to the session after the other.  Between two     *)
(* accesses another session (a task of the event loop for the awaits of    *)
(* the asynchronous variant, a thread for the blocking one) may commit.    *)

\* create and update with a savepoint around their commit or flush: the
\* except branch undoes the refused statement only, and the changes the
\* session held before the call stay pending
write_begin_savepoint(v, d, kw, whole) ==
    IF whole.res.kind = "row" /\ Truthy(Arg(kw, "autocommit", TrueV))
    THEN Part(whole.db, whole.res, "refresh")
    ELSE IF "IntegrityError" \in whole.res.raised THEN Out(d, whole.res)
    ELSE whole

\* create and update up to their second access: after db.commit() comes
\* db.refresh(db_obj); after a commit or flush that raised IntegrityError
\* (the transaction is rolled back already) comes db.rollback(); with
\* autocommit false a successful call ends with its flush
write_begin(v, d, kw, whole) ==
    IF whole.res.kind = "row" /\ Truthy(Arg(kw, "autocommit", TrueV))
    THEN Part(whole.db, whole.res, "refresh")
    ELSE IF "IntegrityError" \in whole.res.raised THEN Part(failed(d), whole.res, "rollback")
    ELSE whole

create_begin(v, d, kw) == write_begin(v, d, kw, create(v, d, kw))

update_begin(v, d, kw) == write_begin(v, d, kw, update(v, d, kw))

\* remove up to its commit.  Asynchronous: filter_by found the row and
\* is_deleted is set on the instance.  Blocking: get(id) found the row and
\* db.delete(obj) marked the instance.
remove_begin(v, d, kw, with_deleted, scan) ==
    LET whole == remove(v, d, kw, with_deleted, scan)
        found == IF v = "sync" THEN {r \in d.session : SqlEq(r.id, kw["id"])}
                 ELSE filter_by("async", d, Rest(kw, {"autocommit"}), scan).res.rows
    IN  IF whole.res.kind # "row" THEN whole
        ELSE Part(d, RowRes(CHOOSE r \in found : TRUE),
                  IF v = "sync" THEN "commit_delete" ELSE "commit_update")

\* hard_delete up to its commit: the DELETE is executed in the session's
\* transaction
hard_delete_begin(v, d, kw) ==
    LET whole == hard_delete(v, d, kw)
    IN  IF whole.res.kind = "error" THEN whole
        ELSE Part(flush(d, whole.db.session), whole.res, "commit")

\* remove_multi up to its commit: the blocking variant with autocommit has
\* executed the DELETE and commits next; a flush after the DELETE changes
\* nothing, and the asynchronous variant executes the DELETE only
remove_multi_begin(v, d, kw) ==
    LET whole == remove_multi(v, d, kw)
    IN  IF v = "sync" /\ whole.res.kind # "error" /\ Truthy(Arg(kw, "autocommit", TrueV))
        THEN Part(flush(d, whole.db.session), whole.res, "commit")
        ELSE whole

\* a suspended call that leaves out db.rollback(): the session stays
\* unusable
resume_no_rollback(d, res, wait) ==
    LET obj == CHOOSE r \in res.rows : TRUE
        now == {r \in d.session : r.id = obj.id}
        deleted == [obj EXCEPT !.is_deleted = TrueV]
    IN  CASE wait = "refresh" ->
                 IF now = {} THEN Out(d, Raise("InvalidRequestError"))
                 ELSE Out(d, RowRes(CHOOSE r \in now : TRUE))
          [] wait = "rollback" -> Out(d, res)
          [] wait = "commit" -> Out(commit(d), res)
          [] wait = "commit_delete" -> Out(commit(flush(d, d.session \ now)), res)
          [] wait = "commit_update" ->
                 IF obj \in d.session
                 THEN Out(commit(flush(d, (d.session \ {obj}) \cup {deleted})), RowRes(deleted))
                 ELSE Out(failed(d), Raise("StaleDataError"))

\* the rest of a suspended call on the tables as they are now.  refresh
\* reads the row again and raises when it is gone.  The commit of the
\* asynchronous remove flushes the UPDATE of the row, which raises when it
\* matches no row: remove catches nothing and calls no rollback.  The
\* commit of the blocking remove flushes the DELETE of the row, which
\* only warns when it matches no row.
resume(d, res, wait) ==
    LET obj == CHOOSE r \in res.rows : TRUE
        now == {r \in d.session : r.id = obj.id}
        deleted == [obj EXCEPT !.is_deleted = TrueV]
    IN  CASE wait = "refresh" ->
                 IF now = {} THEN Out(d, Raise("InvalidRequestError"))
                 ELSE Out(d, RowRes(CHOOSE r \in now : TRUE))
          [] wait = "rollback" -> Out(rollback(d), res)
          [] wait = "commit" -> Out(commit(d), res)
          [] wait = "commit_delete" -> Out(commit(flush(d, d.session \ now)), res)
          [] wait = "commit_update" ->
                 IF obj \in d.session
                 THEN Out(commit(flush(d, (d.session \ {obj}) \cup {deleted})), RowRes(deleted))
                 ELSE Out(failed(d), Raise("StaleDataError"))

----------------------------------------------------------------------------
(* The calls made in the model. *)

IdValues == {IntV(i) : i \in Ids}

NameA == StrV(<<"a">>)
NameB == StrV(<<"b">>)

\* f with the entries of g added
With(f, g) == g @@ f

\* keyword filters passed to the reads and to remove_multi
ReadKw ==
    {EmptyKw, Kw("name", NameA), Kw("name", NameB), Kw("bogus", IntV(1)),
     With(Kw("name", NameA), Kw("bogus", IntV(1))),
     Kw("is_deleted", TrueV), Kw("is_active", FalseV), Kw("age", NoneV)}
    \cup {Kw("id", i) : i \in IdValues}
    \cup {Kw("id", ListV(Ids))}

GetCalls ==
    {Kw("id", i) : i \in IdValues}
    \cup {With(Kw("id", i), Kw("raise_exc", FalseV)) : i \in IdValues}

FilterByCalls ==
    ReadKw
    \cup {With(kw, Kw("raise_exc", FalseV)) :
            kw \in {EmptyKw, Kw("name", NameB), Kw("bogus", IntV(1)), Kw("id", IntV(1))}}
    \cup {Kw("is_reversed", TrueV),
          With(Kw("is_reversed", TrueV), Kw("order_by", IdNameV)),
          Kw("order_by", IdNameV),
          Kw("inner_filter", ExprV(1)),
          With(Kw("name", NameA), Kw("inner_filter", ExprListV({1}))),
          Kw("updated", TrueV)}

\* get_multi with its defaults (no filter_data), with a filter_data object,
\* and with filters, sorting and pagination turned off
GetMultiCalls ==
    {EmptyKw}
    \cup {With(kw, Kw("filter_data", FilterV)) :
            kw \in {EmptyKw, Kw("name", NameA), Kw("bogus", IntV(1)), Kw("is_deleted", TrueV),
                    Kw("inner_filter", ExprV(1))}}
    \cup {With(kw, [x \in {"sorting", "filters", "pagination"} |-> FalseV]) :
            kw \in ReadKw \cup {Kw("inner_filter", ExprV(1)), Kw("order_by", IdNameV)}}

CountCalls ==
    ReadKw \cup {Kw("inner_filter", ExprV(1)), Kw("inner_filter", ExprListV({1})),
                 Kw("updated", TrueV)}

IsExistCalls ==
    ReadKw
    \cup {With(Kw("id", i), Kw("updated", TrueV)) : i \in IdValues}
    \cup {With(Kw("name", NameA), Kw("updated", TrueV)), Kw("inner_filter", ExprV(1))}

ObjIns ==
    {DictV(Kw("name", NameA)), SchemaV(Kw("name", NameA)),
     DictV(With(Kw("name", NameA), Kw("is_active", FalseV))),
     DictV(With(Kw("name", NameA), Kw("bogus", IntV(1))))}
    \cup {DictV(With(Kw("name", NameA), Kw("id", i))) : i \in IdValues}

CreateCalls ==
    {Kw("obj_in", o) : o \in ObjIns}
    \cup {With(Kw("obj_in", o), Kw("autocommit", FalseV)) :
            o \in {DictV(Kw("name", NameA))}
                   \cup {DictV(With(Kw("name", NameA), Kw("id", i))) : i \in IdValues}}

UpdateIns ==
    {DictV(Kw("is_active", FalseV)), DictV(Kw("is_deleted", TrueV)),
     DictV(Kw("bogus", IntV(1)))}
    \cup {DictV(Kw("id", i)) : i \in IdValues}

UpdateCalls ==
    LET base == {With(Kw("db_obj", InstanceV(i)), Kw("obj_in", o)) : i \in Ids, o \in UpdateIns}
    IN  base \cup {With(kw, Kw("autocommit", FalseV)) :
                      kw \in {c \in base : DOMAIN c["obj_in"].d \subseteq {"id", "is_deleted"}}}

RemoveCalls ==
    {Kw("id", i) : i \in IdValues}
    \cup {Kw("name", NameA), With(Kw("name", NameA), Kw("raise_exc", FalseV)),
          With(Kw("name", NameA), Kw("autocommit", FalseV))}

HardDeleteCalls ==
    {Kw("id", i) : i \in IdValues}
    \cup {With(Kw("id", IntV(1)), Kw("autocommit", FalseV)), EmptyKw}

RemoveMultiCalls ==
    LET base == {EmptyKw, Kw("name", NameA), Kw("bogus", IntV(1)), Kw("is_deleted", TrueV),
                 Kw("id", ListV(Ids))}
                \cup {Kw("id", i) : i \in IdValues}
    IN  base \cup {With(kw, Kw("autocommit", FalseV)) :
                      kw \in {EmptyKw, Kw("name", NameA), Kw("id", IntV(1))}}

\* filter_test keywords called in the CRUD specification
FilterTestCalls ==
    {EmptyKw, Kw(<<"name">>, NameA), Kw(<<"bogus">>, IntV(1)), Kw(<<"bogus", "gt">>, IntV(1)),
     Kw(<<"age", "isnull">>, TrueV), Kw(<<"id", "gt">>, IntV(1)), Kw(<<"is_deleted">>, FalseV),
     Kw(<<"age", "foo">>, IntV(1)), Kw(<<"owner">>, IntV(1)), Kw(<<"owner", "name">>, NameA)}

EmptyDb == [committed |-> {}, session |-> {}, inactive |-> FALSE]

\* two sessions of callers on the same table
Sessions == {"s1", "s2"}

\* no session has called anything
NoRace == [at |-> [s \in Sessions |-> "start"], key |-> [s \in Sessions |-> NoneV],
           ret |-> [s \in Sessions |-> NoneRes], both |-> FALSE]

NoCall == [op |-> "", kw |-> EmptyKw, scan |-> 1, with_deleted |-> FALSE,
           pre |-> [v \in Variants |-> EmptyDb], res |-> [v \in Variants |-> NoneRes],
           wait |-> [v \in Variants |-> ""], others |-> {}]

\* the record of a call: its name and keywords, the environment's choices,
\* each variant's table before it, what each variant gave back, what it
\* awaits, and the ids of the rows other sessions deleted while it ran
Called(op, kw, scan, with_deleted, out) ==
    [op |-> op, kw |-> kw, scan |-> scan, with_deleted |-> with_deleted,
     pre |-> db, res |-> [v \in Variants |-> IF v \in run THEN out[v].res ELSE NoneRes],
     wait |-> [v \in Variants |-> IF v \in run THEN WaitOf(out[v]) ELSE ""],
     others |-> {}]

Do(op, kw, scan, with_deleted, out) ==
    /\ pc = "idle"
    /\ db' = [v \in Variants |-> IF v \in run THEN out[v].db ELSE db[v]]
    /\ call' = Called(op, kw, scan, with_deleted, out)
    /\ pc' = IF \E v \in run : WaitOf(out[v]) # "" THEN "await" ELSE "done"
    /\ UNCHANGED <<run, race>>

----------------------------------------------------------------------------
(* The specification: a variant starts from the empty table. *)

Init ==
    /\ db = [v \in Variants |-> EmptyDb]
    /\ pc = "idle"
    /\ call = NoCall
    /\ race = NoRace
    /\ run \in {{v} : v \in Variants}

IsExist(kw) == Do("is_exist", kw, 1, FALSE, [v \in run |-> is_exist(v, db[v], kw)])

Get(kw) == Do("get", kw, 1, FALSE, [v \in run |-> get(v, db[v], kw)])

FilterBy(kw, scan) ==
    \* the scan starts at a row the query can return, at id 1 if there is none
    /\ scan = 1 \/ \A v \in run : scan \in RowIds(active_data(db[v].session))
    /\ Do("filter_by", kw, scan, FALSE, [v \in run |-> filter_by(v, db[v], kw, scan)])

GetMulti(kw) == Do("get_multi", kw, 1, FALSE, [v \in run |-> get_multi(v, db[v], kw)])

Count(kw) == Do("count", kw, 1, FALSE, [v \in run |-> count(v, db[v], kw)])

FilterTest(kw) == Do("filter_test", kw, 1, FALSE, [v \in run |-> filter_test(v, db[v], kw)])

Create(kw) ==
    \* the ids of the model are bounded: a create that would take the next
    \* id beyond MaxId is not called
    /\ \A v \in run : "id" \in DOMAIN kw["obj_in"].d \/ \A i \in RowIds(db[v].session) : i < MaxId
    /\ Do("create", kw, 1, FALSE, [v \in run |-> create_begin(v, db[v], kw)])

Update(kw) ==
    \* db_obj is an instance the caller loaded with filter_by: a row of the
    \* session that is active and not deleted
    /\ \A v \in run : kw["db_obj"].n \in RowIds(active_data(db[v].session))
    /\ Do("update", kw, 1, FALSE, [v \in run |-> update_begin(v, db[v], kw)])

Remove(kw, scan, with_deleted) ==
    \* with_deleted is read by the blocking variant only, scan by the
    \* asynchronous one: a choice the running variant does not read is fixed
    /\ "sync" \in run \/ ~with_deleted
    /\ scan = 1 \/ \A v \in run \ {"sync"} : scan \in RowIds(active_data(db[v].session))
    /\ "async" \in run \/ scan = 1
    /\ Do("remove", kw, scan, with_deleted,
          [v \in run |-> remove_begin(v, db[v], kw, with_deleted, scan)])

HardDelete(kw) ==
    Do("hard_delete", kw, 1, FALSE, [v \in run |-> hard_delete_begin(v, db[v], kw)])

RemoveMulti(kw) ==
    Do("remove_multi", kw, 1, FALSE, [v \in run |-> remove_multi_begin(v, db[v], kw)])

\* the caller commits its session (a session whose flush failed refuses)
SessionCommit ==
    /\ pc = "idle"
    /\ \E v \in run : db[v].session # db[v].committed /\ ~db[v].inactive
    /\ db' = [v \in Variants |-> IF db[v].inactive THEN db[v] ELSE commit(db[v])]
    /\ UNCHANGED <<pc, call, run, race>>

\* the caller rolls its session back
SessionRollback ==
    /\ pc = "idle"
    /\ \E v \in run : db[v].session # db[v].committed \/ db[v].inactive
    /\ db' = [v \in Variants |-> rollback(db[v])]
    /\ UNCHANGED <<pc, call, run, race>>

\* the suspended call goes on with its next access to the session and runs
\* to its end
Resume ==
    /\ pc = "await"
    /\ LET out == [v \in run |->
                     IF call.wait[v] = "" THEN Out(db[v], call.res[v])
                     ELSE resume(db[v], call.res[v], call.wait[v])]
       IN  /\ db' = [v \in Variants |-> IF v \in run THEN out[v].db ELSE db[v]]
           /\ call' = [call EXCEPT
                         !.res = [v \in Variants |-> IF v \in run THEN out[v].res ELSE NoneRes],
                         !.wait = [v \in Variants |-> ""]]
    /\ pc' = "done"
    /\ UNCHANGED <<run, race>>

\* the rows of variant v's table that another session can delete now: the
\* committed rows the suspended call's transaction has not changed
Unlocked(v) == IF call.wait[v] = "" THEN {} ELSE db[v].committed \cap db[v].session

\* while the call is suspended another session (a task of the event loop,
\* a thread) runs hard_delete(id=i), which commits
OtherHardDelete(i) ==
    /\ pc = "await"
    /\ \E v \in run : i \in RowIds(Unlocked(v))
    /\ db' = [v \in Variants |->
                 IF i \in RowIds(Unlocked(v))
                 THEN [committed |-> {r \in db[v].committed : r.id.n # i},
                       session |-> {r \in db[v].session : r.id.n # i},
                       inactive |-> db[v].inactive]
                 ELSE db[v]]
    /\ call' = [call EXCEPT !.others = @ \cup {i}]
    /\ UNCHANGED <<pc, run, race>>

\* the caller takes the result or the error
Return ==
    /\ pc = "done"
    /\ pc' = "idle"
    /\ call' = NoCall
    /\ UNCHANGED <<db, run, race>>

Next ==
    \/ \E kw \in IsExistCalls : IsExist(kw)
    \/ \E kw \in GetCalls : Get(kw)
    \/ \E kw \in FilterByCalls, scan \in Ids : FilterBy(kw, scan)
    \/ \E kw \in GetMultiCalls : GetMulti(kw)
    \/ \E kw \in CountCalls : Count(kw)
    \/ \E kw \in FilterTestCalls : FilterTest(kw)
    \/ \E kw \in CreateCalls : Create(kw)
    \/ \E kw \in UpdateCalls : Update(kw)
    \/ \E kw \in RemoveCalls, scan \in Ids, with_deleted \in BOOLEAN : Remove(kw, scan, with_deleted)
    \/ \E kw \in HardDeleteCalls : HardDelete(kw)
    \/ \E kw \in RemoveMultiCalls : RemoveMulti(kw)
    \/ SessionCommit
    \/ SessionRollback
    \/ Resume
    \/ \E i \in Ids : OtherHardDelete(i)
    \/ Return

Spec == Init /\ [][Next]_vars

----------------------------------------------------------------------------
(* Both variants side by side: the same calls with the same arguments,     *)
(* from the same empty table.                                              *)

PairCreateCalls ==
    {Kw("obj_in", DictV(Kw("name", NameA))),
     With(Kw("obj_in", DictV(Kw("name", NameA))), Kw("autocommit", FalseV))}

PairUpdateCalls ==
    {With(Kw("db_obj", InstanceV(i)), Kw("obj_in", DictV(Kw("is_deleted", TrueV)))) : i \in Ids}

InitPair ==
    /\ db = [v \in Variants |-> EmptyDb]
    /\ pc = "idle"
    /\ call = NoCall
    /\ race = NoRace
    /\ run = Variants

NextPair ==
    \/ \E kw \in {Kw("name", NameA)} : IsExist(kw)
    \/ \E kw \in {Kw("id", i) : i \in IdValues} : Get(kw)
    \/ \E kw \in {Kw("name", NameA)} : FilterBy(kw, 1)
    \/ \E kw \in {With(Kw("name", NameA), Kw("filter_data", FilterV))} : GetMulti(kw)
    \/ \E kw \in {EmptyKw} : Count(kw)
    \/ \E kw \in PairCreateCalls : Create(kw)
    \/ \E kw \in PairUpdateCalls : Update(kw)
    \/ \E kw \in {Kw("id", i) : i \in IdValues}, with_deleted \in BOOLEAN : Remove(kw, 1, with_deleted)
    \/ \E kw \in {Kw("id", i) : i \in IdValues} : HardDelete(kw)
    \/ \E kw \in {Kw("name", NameA)} : RemoveMulti(kw)
    \/ SessionCommit
    \/ SessionRollback
    \/ Resume
    \/ Return

SpecPair == InitPair /\ [][NextPair]_vars

----------------------------------------------------------------------------
(* filter_test as a function of the table and the keywords: the table is   *)
(* drawn from the tables of at most MaxId rows over the values below.      *)

FilterNames == {StrV(<<>>), StrV(<<"a">>), StrV(<<"A", "b">>)}
FilterAges == {NoneV, IntV(0), IntV(1)}

\* for every set S of ids, the tables with one row for each id of S
FilterTables ==
    UNION {{{Row(i, c[i][1], c[i][2], TRUE, c[i][3]) : i \in S} :
               c \in [S -> FilterNames \X FilterAges \X BOOLEAN]} : S \in SUBSET Ids}

\* one keyword for each suffix of the transformer and for no suffix, with
\* falsy and truthy values
FilterKeywords ==
    {Kw(<<"age">>, x) : x \in FilterAges}
    \cup {Kw(<<"age", sfx>>, x) : sfx \in {"neq", "gt", "gte", "lt", "lte"}, x \in {IntV(0), IntV(1)}}
    \cup {Kw(<<"age", "neq">>, NoneV), Kw(<<"age", "not">>, NoneV)}
    \cup {Kw(<<"age", sfx>>, ListV(S)) : sfx \in {"in", "not_in"}, S \in {{}, {0}, {0, 1}}}
    \cup {Kw(<<"age", "isnull">>, b) : b \in {TrueV, FalseV}}
    \cup {Kw(<<"name">>, nm) : nm \in FilterNames}
    \cup {Kw(<<"name", "like">>, StrV(pat)) : pat \in {<<"a", "%">>, <<"%", "b">>, <<"_">>}}
    \cup {Kw(<<"name", "ilike">>, StrV(pat)) : pat \in {<<"a", "%">>, <<"A", "B">>}}
    \cup {Kw(<<"is_deleted">>, b) : b \in {TrueV, FalseV}}
    \cup {Kw(<<"is_deleted", "not">>, TrueV)}
    \cup {Kw(<<"bogus">>, IntV(1)), Kw(<<"bogus", "gt">>, IntV(1)), Kw(<<"bogus", "isnull">>, TrueV)}

\* the keywords alone, and some of them together
RichFilterTestCalls ==
    {EmptyKw} \cup FilterKeywords
    \cup {With(k1, k2) : k1 \in {Kw(<<"is_deleted">>, FalseV), Kw(<<"name">>, StrV(<<"a">>)),
                                  Kw(<<"bogus">>, IntV(1))},
                         k2 \in {k \in FilterKeywords : \E key \in DOMAIN k : key[1] = "age"}}

InitFilter ==
    /\ \E T \in FilterTables : db = [v \in Variants |-> [committed |-> T, session |-> T, inactive |-> FALSE]]
    /\ pc = "idle"
    /\ call = NoCall
    /\ race = NoRace
    /\ run \in {{v} : v \in Variants}

NextFilter ==
    \/ \E kw \in RichFilterTestCalls : FilterTest(kw)
    \/ Return

SpecFilter == InitFilter /\ [][NextFilter]_vars

----------------------------------------------------------------------------
(* Two concurrent sessions on one table.  Each calls is_exist with its key *)
(* values and, when that returned True, create with the same values, both  *)
(* with the defaults: create commits, so a session holds no uncommitted    *)
(* change between its calls and each statement reads the committed table.  *)
(* db[v].committed is the table the two sessions share; it has no          *)
(* uniqueness constraint besides the primary key.                          *)

RaceKeys == {NameA, NameB}

\* the tables the sessions start from: live rows created before, ids 1..n
RaceTables ==
    UNION {{{Row(i, c[i], NoneV, TRUE, FALSE) : i \in 1..n} : c \in [1..n -> RaceKeys]} :
              n \in 0..MaxId}

InitRace ==
    /\ \E T \in RaceTables : db = [v \in Variants |-> [committed |-> T, session |-> T, inactive |-> FALSE]]
    /\ pc = "idle"
    /\ call = NoCall
    /\ race = NoRace
    /\ run \in {{v} : v \in Variants}

\* session s calls is_exist(db, name=key): True, or the HTTP 400 that ends
\* its request.  `both` records that the two sessions hold a True for the
\* same key at once.
RaceIsExist(s, key) ==
    /\ race.at[s] = "start"
    /\ LET passed == \A v \in run : is_exist(v, db[v], Kw("name", key)).res = TrueRes
       IN  race' = [at |-> [race.at EXCEPT ![s] = IF passed THEN "checked" ELSE "refused"],
                    key |-> [race.key EXCEPT ![s] = key],
                    ret |-> race.ret,
                    both |-> race.both \/
                             (passed /\ \E o \in Sessions \ {s} :
                                            race.at[o] = "checked" /\ race.key[o] = key)]
    /\ UNCHANGED <<db, pc, call, run>>

\* where a session stands after a step of its create
RaceAt(out) ==
    IF WaitOf(out) # "" THEN WaitOf(out) ELSE IF out.res.kind = "row" THEN "created" ELSE "error"

\* session s, whose is_exist returned True, calls create(db, obj_in={name: key}):
\* the whole blocking create, the asynchronous one up to its second await
RaceCreate(s) ==
    /\ race.at[s] = "checked"
    /\ \A v \in run : \A i \in RowIds(db[v].session) : i < MaxId
    /\ LET v == CHOOSE x \in run : TRUE
           out == create_begin(v, db[v], Kw("obj_in", DictV(Kw("name", race.key[s]))))
       IN  /\ db' = [db EXCEPT ![v] = out.db]
           /\ race' = [race EXCEPT !.at[s] = RaceAt(out), !.ret[s] = out.res]
    /\ UNCHANGED <<pc, call, run>>

\* the asynchronous create of session s goes on after its await
RaceResume(s) ==
    /\ race.at[s] \in {"refresh", "rollback"}
    /\ LET v == CHOOSE x \in run : TRUE
           out == resume(db[v], race.ret[s], race.at[s])
       IN  /\ db' = [db EXCEPT ![v] = out.db]
           /\ race' = [race EXCEPT !.at[s] = RaceAt(out), !.ret[s] = out.res]
    /\ UNCHANGED <<pc, call, run>>

NextRace ==
    \/ \E s \in Sessions, key \in RaceKeys : RaceIsExist(s, key)
    \/ \E s \in Sessions : RaceCreate(s)
    \/ \E s \in Sessions : RaceResume(s)

SpecRace == InitRace /\ [][NextRace]_vars

----------------------------------------------------------------------------
(* Properties. *)

\* every table of every reachable state keeps the primary key
TypeOK ==
    /\ pc \in {"idle", "await", "done"}
    /\ \A v \in Variants : IsTable(db[v].session) /\ IsTable(db[v].committed)

\* a call of one of the methods ops, made on a session that could be used,
\* has run to its end
Done(ops) == pc = "done" /\ call.op \in ops /\ \A v \in run : ~call.pre[v].inactive

LiveRows(T) == {r \in T : Live(r)}

\* C1: every default read (get, filter_by, get_multi, count) of both
\* variants returns only rows with is_active = true and is_deleted = false,
\* and count counts no other row, whatever keyword filters are passed.
C1_DefaultReadsSkipSoftRows ==
    Done({"get", "filter_by", "get_multi", "count"}) =>
        \A v \in run :
            /\ \A r \in call.res[v].rows : Live(r)
            /\ call.res[v].kind = "int" =>
                   call.res[v].n <= Cardinality(LiveRows(call.pre[v].session))

\* the rows of T that no other session deleted while the call ran
Kept(T) == {r \in T : r.id.n \notin call.others}

\* a create or update of variant v whose row takes the id of another row
IntegrityHit(v) ==
    \/ /\ call.op = "create"
       /\ DOMAIN call.kw["obj_in"].d \subseteq Columns
       /\ v = "async" => call.kw["obj_in"].k = "dict"
       /\ "id" \in DOMAIN call.kw["obj_in"].d
       /\ call.kw["obj_in"].d["id"].n \in RowIds(call.pre[v].session)
    \/ /\ call.op = "update"
       /\ "id" \in DOMAIN call.kw["obj_in"].d
       /\ call.kw["obj_in"].d["id"].n \in RowIds(call.pre[v].session) \ {call.kw["db_obj"].n}

\* C2: a create or update that hits an integrity violation catches it,
\* rolls the session back (it can be used again) and raises HTTP 400 with
\* the database's error text as detail; the committed table is the one
\* before the call, less the rows another session deleted while the call
\* was suspended.
C2_IntegrityErrorRolledBack ==
    Done({"create", "update"}) =>
        \A v \in run : IntegrityHit(v) =>
            /\ call.res[v].kind = "error"
            /\ call.res[v].exc = "HTTPException"
            /\ call.res[v].status = 400
            /\ call.res[v].detail = PkViolation
            /\ "IntegrityError" \in call.res[v].raised
            /\ db[v].committed = Kept(call.pre[v].committed)
            /\ db[v].session = Kept(call.pre[v].committed)
            /\ ~db[v].inactive

\* C2's case: a create hits the violation while the session holds
\* uncommitted changes
C2_Witness ==
    /\ Done({"create"})
    /\ \E v \in run : IntegrityHit(v) /\ call.pre[v].session # call.pre[v].committed

\* the live rows a single-row read of variant v is asked for
Matching(v) ==
    IF call.op = "get"
    THEN {r \in LiveRows(call.pre[v].session) : r.id = call.kw["id"]}
    ELSE LET kwargs == Rest(call.kw, {"is_reversed", "raise_exc"})
         IN  {r \in LiveRows(call.pre[v].session) :
                /\ KwargsMatch(r, kwargs)
                /\ "inner_filter" \in DOMAIN kwargs => InnerFilter(r, kwargs["inner_filter"])}

NotFound(res) == res.kind = "error" /\ res.status = 404

\* C3: get and filter_by raise HTTP 404 when no live row matches and
\* raise_exc is true (the default), return None when raise_exc is false, and
\* never raise 404 when a live row matches.
C3_NotFoundRaises404 ==
    Done({"get", "filter_by"}) =>
        \A v \in run :
            LET raise_exc == Truthy(Arg(call.kw, "raise_exc", TrueV))
            IN  /\ (Matching(v) = {} /\ raise_exc) => NotFound(call.res[v])
                /\ (Matching(v) = {} /\ ~raise_exc) => call.res[v].kind = "none"
                /\ Matching(v) # {} => ~NotFound(call.res[v])

\* C4: remove called on a live row leaves the row in storage with
\* is_deleted = true.
C4_RemoveIsSoftDelete ==
    (Done({"remove"}) /\ DOMAIN call.kw = {"id"}) =>
        \A v \in run :
            \A r \in Kept(LiveRows(call.pre[v].session)) :
                r.id = call.kw["id"] => [r EXCEPT !.is_deleted = TrueV] \in db[v].session

\* C5: hard_delete(id) removes the row with that id, live or not, from the
\* session and from the committed table, and leaves every other row of the
\* session as it was (a row another session deleted meanwhile is gone).
C5_HardDeleteRemovesRow ==
    (Done({"hard_delete"}) /\ "id" \in DOMAIN call.kw) =>
        \A v \in run :
            /\ call.res[v] = TrueRes
            /\ \A r \in db[v].session \cup db[v].committed : r.id # call.kw["id"]
            /\ db[v].session = Kept({r \in call.pre[v].session : r.id # call.kw["id"]})
            /\ db[v].committed = db[v].session

\* C5's case: the row deleted was not live, and another row was there
C5_Witness ==
    /\ Done({"hard_delete"})
    /\ "id" \in DOMAIN call.kw
    /\ \E v \in run : \E r, o \in call.pre[v].session :
          r.id = call.kw["id"] /\ ~Live(r) /\ o.id # r.id

\* the comparison a suffix names, between a column value c and a value x
Comparison(suffix, c, x) ==
    CASE suffix = "neq" -> SqlNe(c, x)
      [] suffix = "gt" -> Numeric(c) /\ c.n > x.n
      [] suffix = "gte" -> Numeric(c) /\ c.n >= x.n
      [] suffix = "lt" -> Numeric(c) /\ c.n < x.n
      [] suffix = "lte" -> Numeric(c) /\ c.n <= x.n
      [] suffix = "in" -> Numeric(c) /\ c.n \in x.l
      [] suffix = "not_in" -> x.l = {} \/ (Numeric(c) /\ c.n \notin x.l)
      [] suffix = "like" -> c.k = "str" /\ LikeMatch(LowerStr(c.s), LowerStr(x.s))
      [] suffix = "ilike" -> c.k = "str" /\ LikeMatch(LowerStr(c.s), LowerStr(x.s))
      [] suffix = "not" -> c # x
      [] suffix = "isnull" -> IF x = TrueV THEN c.k = "none" ELSE c.k # "none"
      [] OTHER -> SqlEq(c, x)

\* what keyword key = x asks of row r: the comparison of its suffix, or
\* equality when it has none
Satisfies(r, key, x) ==
    IF Len(key) = 1 THEN SqlEq(r[key[1]], x) ELSE Comparison(key[2], r[key[1]], x)

\* the keywords of C6: a column alone, or a column and a suffix other than
\* isnull
ComparisonKey(key) ==
    /\ key[1] \in Columns
    /\ Len(key) = 1 \/ (Len(key) = 2 /\ key[2] \in Suffixes \ {"isnull"})

\* C6: filter_test selects exactly the rows that satisfy the comparison of
\* every keyword (the one its suffix names, equality without a suffix), for
\* every value, falsy ones included.
C6_FilterTestAppliesEveryKeyword ==
    (Done({"filter_test"}) /\ \A key \in DOMAIN call.kw : ComparisonKey(key)) =>
        \A v \in run :
            /\ call.res[v].kind = "rows"
            /\ call.res[v].rows =
                   {r \in call.pre[v].session :
                       \A key \in DOMAIN call.kw : Satisfies(r, key, call.kw[key])}

\* C7: field__isnull = True selects exactly the rows whose field is NULL,
\* field__isnull = False exactly those whose field is not NULL; the keyword
\* is never dropped.
C7_IsNullSelectsNullRows ==
    (Done({"filter_test"}) /\ DOMAIN call.kw \subseteq {<<"age", "isnull">>}) =>
        \A v \in run :
            /\ call.res[v].kind = "rows"
            /\ call.res[v].rows =
                   {r \in call.pre[v].session :
                       \A key \in DOMAIN call.kw :
                           IF call.kw[key] = TrueV THEN r.age = NoneV ELSE r.age # NoneV}

\* a call of variant v on table d, by the name of its method
Apply(op, v, d, kw, scan, with_deleted) ==
    CASE op = "is_exist" -> is_exist(v, d, kw)
      [] op = "get" -> get(v, d, kw)
      [] op = "filter_by" -> filter_by(v, d, kw, scan)
      [] op = "get_multi" -> get_multi(v, d, kw)
      [] op = "count" -> count(v, d, kw)
      [] op = "filter_test" -> filter_test(v, d, kw)
      [] op = "create" -> create(v, d, kw)
      [] op = "update" -> update(v, d, kw)
      [] op = "remove" -> remove(v, d, kw, with_deleted, scan)
      [] op = "hard_delete" -> hard_delete(v, d, kw)
      [] op = "remove_multi" -> remove_multi(v, d, kw)

\* the methods that take keyword filters
KeywordMethods == {"filter_test", "filter_by", "get_multi", "count", "is_exist", "remove_multi"}

\* the named parameters of a method, which are no keyword filters
Parameters(op) ==
    CASE op = "filter_by" -> {"is_reversed", "raise_exc", "join_tables", "is_outer"}
      [] op = "get_multi" -> {"filter_data", "sorting", "filters", "pagination",
                              "join_tables", "is_outer"}
      [] op = "remove_multi" -> {"autocommit"}
      [] OTHER -> {}

\* the field name of a filter_test keyword: the keyword without its suffix
\* when the suffix is one of the transformer's, the whole keyword otherwise
FieldName(key) ==
    IF Len(key) > 1 /\ key[Len(key)] \in Suffixes THEN SubSeq(key, 1, Len(key) - 1) ELSE key

\* the keywords of the call whose field name is no model attribute
Unrecognized ==
    IF call.op = "filter_test"
    THEN {key \in DOMAIN call.kw : ~(Len(FieldName(key)) = 1 /\ HasAttr(FieldName(key)[1]))}
    ELSE {key \in DOMAIN call.kw : key \notin Parameters(call.op) /\ ~HasAttr(key)}

\* the keywords a method reads by name although they name no model attribute
ControlKeywords(op) ==
    CASE op \in {"filter_by", "get_multi"} -> {"inner_filter", "order_by", "direction"}
      [] op = "count" -> {"inner_filter"}
      [] op = "is_exist" -> {"updated"}
      [] OTHER -> {}

Without(kw, key) == [x \in (DOMAIN kw) \ {key} |-> kw[x]]

\* what the caller sees of a result
Visible(res) ==
    [kind |-> res.kind, rows |-> res.rows, n |-> res.n, exc |-> res.exc,
     status |-> res.status, detail |-> res.detail]

\* the caller of variant v got what the call without keyword `key` gives
\* on the same table
SameWithout(v, key) ==
    LET other == Apply(call.op, v, call.pre[v], Without(call.kw, key), call.scan, call.with_deleted)
    IN  Visible(other.res) = Visible(call.res[v]) /\ other.db = db[v]

\* C8: a keyword whose field name is no model attribute is ignored: the call
\* raises no error for it and gives the same result and the same table as
\* without it.  The keywords a method reads by name (inner_filter, order_by,
\* direction in filter_by and get_multi, inner_filter in count, updated in
\* is_exist) are not taken for field names.
C8_UnrecognizedKeywordIgnored ==
    Done(KeywordMethods) =>
        \A v \in run : \A key \in Unrecognized :
            (call.op = "filter_test" \/ key \notin ControlKeywords(call.op)) => SameWithout(v, key)

\* every exception raised while the call ran, the caught IntegrityError
\* aside, is the one the caller gets
Propagated(res) ==
    res.raised \ {"IntegrityError"} \subseteq (IF res.kind = "error" THEN {res.exc} ELSE {})

\* C9 as claimed: no call swallows an exception or turns it into a normal
\* return.
C9_NoExceptionSwallowed == pc = "done" => \A v \in run : Propagated(call.res[v])

\* the exceptions the bare except of the blocking filter_test caught: those
\* raised for the keywords whose first part names a relationship attribute
BareExcept(v) ==
    IF v = "sync" /\ call.op = "filter_test"
    THEN {st.exc : st \in {x \in {FirstLoop(key, call.kw[key]) : key \in DOMAIN call.kw} :
                               x.do = "caught"}}
    ELSE {}

\* C9, amended: apart from the integrity violation, the not-found condition
\* and the exceptions the blocking filter_test catches while it filters on a
\* relationship attribute, every exception raised reaches the caller.
C9_ExceptionsPropagate ==
    pc = "done" =>
        \A v \in run :
            call.res[v].raised \ ({"IntegrityError"} \cup BareExcept(v))
                \subseteq (IF call.res[v].kind = "error" THEN {call.res[v].exc} ELSE {})

\* C9's case: get_multi called without filter_data raises AttributeError
C9_Witness ==
    /\ Done({"get_multi"})
    /\ \E v \in run : call.res[v].kind = "error" /\ call.res[v].exc = "AttributeError"

\* C10: after the same calls with the same arguments from the same table,
\* both variants gave the same result or error and hold the same stored and
\* committed rows.
C10_VariantsAgree ==
    (pc = "done" /\ run = Variants) =>
        /\ Visible(call.res["sync"]) = Visible(call.res["async"])
        /\ db["sync"] = db["async"]

\* C11: is_exist followed by create is not atomic and nothing locks: once
\* both sessions hold a True from is_exist for the same key values, neither
\* create is refused, and when both have created, the committed table holds
\* two live rows with those key values.
C11_CheckThenCreateRaces ==
    race.both =>
        /\ \A s \in Sessions : race.at[s] \in {"checked", "refresh", "created"}
        /\ (\A s \in Sessions : race.at[s] = "created") =>
               \A v \in run :
                   \E r1, r2 \in db[v].committed :
                       /\ r1.id # r2.id
                       /\ Live(r1) /\ Live(r2)
                       /\ r1.name = race.key["s1"] /\ r2.name = race.key["s1"]

\* C11's case: both is_exist calls returned True for the same key values
\* before either create, and both creates have committed
C11_Witness ==
    /\ race.both
    /\ \A s \in Sessions : race.at[s] = "created"
    /\ race.key["s1"] = race.key["s2"]

\* the methods of variant v that take an autocommit argument
AcceptsAutocommit(v) ==
    {"create", "update", "hard_delete", "remove_multi"} \cup (IF v = "async" THEN {"remove"} ELSE {})

\* C12: a mutating call that takes autocommit and succeeds has committed
\* the session when it returns if autocommit is true (the default), and has
\* committed nothing if autocommit is false: the committed table is the one
\* before the call, which a rollback returns to.
C12_CommitsIffAutocommit ==
    pc = "done" =>
        \A v \in run :
            (call.op \in AcceptsAutocommit(v) /\ call.res[v].kind # "error") =>
                IF Truthy(Arg(call.kw, "autocommit", TrueV))
                THEN db[v].committed = db[v].session
                ELSE /\ db[v].committed = Kept(call.pre[v].committed)
                     /\ rollback(db[v]).session = Kept(call.pre[v].committed)

\* C13: a create or update with autocommit=False that hits an integrity
\* violation leaves the session with the rows committed before: every
\* uncommitted change of earlier calls is gone, and nothing was committed.
C13_FailedFlushDiscardsPending ==
    (Done({"create", "update"}) /\ ~Truthy(Arg(call.kw, "autocommit", TrueV))) =>
        \A v \in run : IntegrityHit(v) =>
            /\ call.res[v].kind = "error"
            /\ db[v].session = Kept(call.pre[v].committed)
            /\ db[v].committed = Kept(call.pre[v].committed)
            /\ \A r \in call.pre[v].session \ call.pre[v].committed : r \notin db[v].session

\* C13's case: the call with autocommit=False collides with a committed row
\* while a row of an earlier call is in the session and not committed
C13_Witness ==
    /\ Done({"create", "update"})
    /\ ~Truthy(Arg(call.kw, "autocommit", TrueV))
    /\ \E v \in run :
          /\ IntegrityHit(v)
          /\ call.kw["obj_in"].d["id"].n \in RowIds(call.pre[v].committed)
          /\ \E r \in call.pre[v].session : r.id.n \notin RowIds(call.pre[v].committed)

\* the rows remove_multi is asked to delete: those whose attribute equals
\* the value of every keyword that names a column
AskedToDelete(T, kw) ==
    {r \in T : \A key \in (DOMAIN kw \cap Columns) : r[key] = kw[key]}

\* C14: remove_multi deletes exactly the rows, live or not, that equal every
\* keyword naming a model attribute (all rows when no keyword does), leaves
\* the other rows as they were and returns True.
C14_RemoveMultiDeletesMatching ==
    Done({"remove_multi"}) =>
        \A v \in run :
            /\ call.res[v] = TrueRes
            /\ db[v].session =
                   call.pre[v].session \ AskedToDelete(call.pre[v].session, Rest(call.kw, {"autocommit"}))

\* get_multi with pagination, filters and sorting turned off
AllOff == [x \in {"sorting", "filters", "pagination"} |-> FalseV]

\* C15: count(**kwargs) is the number of rows get_multi(**kwargs) returns
\* with pagination, filters and sorting off, for keyword filters on columns
\* and every value, falsy ones included.
C15_CountIsLenOfGetMulti ==
    (Done({"count"}) /\ DOMAIN call.kw \subseteq Columns) =>
        \A v \in run :
            LET listed == get_multi(v, call.pre[v], With(call.kw, AllOff)).res
            IN  /\ call.res[v].kind = "int"
                /\ listed.kind = "rows"
                /\ call.res[v].n = Cardinality(listed.rows)

====
